---- MODULE Spec2Model ----
(***************************************************************************)
(* Model of tools/build.py: the build script of the Material 3 icon theme  *)
(* for Plasma.  Strings are sequences of code points, paths are sequences  *)
(* of path components, the filesystem is a set of directories and a        *)
(* function from file paths to file contents.                              *)
(***************************************************************************)
EXTENDS Naturals, Sequences, FiniteSets

(* ---------------------------------------------------------------------- *)
(* Bounds of the model                                                     *)
(* ---------------------------------------------------------------------- *)
MaxRows == 2

MaxRuns == 2

(* ---------------------------------------------------------------------- *)
(* String literals of the script (code points)                             *)
(* ---------------------------------------------------------------------- *)
\* "light"
Light == <<108, 105, 103, 104, 116>>

\* "dark"
Dark == <<100, 97, 114, 107>>

Themes == {Light, Dark}

\* "material3-plasma-"
ThemeDirPrefix ==
  <<109, 97, 116, 101, 114, 105, 97, 108, 51, 45, 112, 108, 97, 115, 109, 97, 45>>

\* "src"
SrcName == <<115, 114, 99>>

\* "normalized"
NormalizedName == <<110, 111, 114, 109, 97, 108, 105, 122, 101, 100>>

\* "scalable"
ScalableName == <<115, 99, 97, 108, 97, 98, 108, 101>>

\* "index.theme"
IndexName == <<105, 110, 100, 101, 120, 46, 116, 104, 101, 109, 101>>

\* ".svg"
SvgSuffix == <<46, 115, 118, 103>>

\* ".png"
PngSuffix == <<46, 112, 110, 103>>

\* "Material 3 (Plasma " and ")"
ThemeNameHead ==
  <<77, 97, 116, 101, 114, 105, 97, 108, 32, 51, 32, 40, 80, 108, 97, 115, 109, 97, 32>>

ThemeNameTail == <<41>>

\* sizes = [16, 22, 24, 32, 48, 64, 96, 128, 256]
Sizes == <<16, 22, 24, 32, 48, 64, 96, 128, 256>>

\* the sizes of the bookkeeping loop in main()
EntrySizes == <<16, 22, 24, 32, 48, 64, 96, 128, 256>>

(* ---------------------------------------------------------------------- *)
(* Pure string and path functions                                          *)
(* ---------------------------------------------------------------------- *)
RECURSIVE Str(_)
\* str(size): the decimal digits of a natural number
Str(n) == IF n < 10 THEN <<48 + n>> ELSE Str(n \div 10) \o <<48 + (n % 10)>>

\* f"{size}x{size}"
SizeDirName(size) == Str(size) \o <<120>> \o Str(size)

\* f"scalable/{context}"
ScalableEntry(context) == ScalableName \o <<47>> \o context

\* f"{size}x{size}/{context}"
SizeEntry(size, context) == SizeDirName(size) \o <<47>> \o context

RECURSIVE LexLess(_, _)
\* Python's str ordering: code point by code point, a proper prefix first
LexLess(a, b) ==
  IF b = <<>> THEN FALSE
  ELSE IF a = <<>> THEN TRUE
  ELSE IF a[1] # b[1] THEN a[1] < b[1]
  ELSE LexLess(Tail(a), Tail(b))

\* the least string of a non-empty set
LexMin(S) == CHOOSE x \in S : \A y \in S : y = x \/ LexLess(x, y)

RECURSIVE SortedListDescending(_)
\* sorted(..., reverse=True)
SortedListDescending(S) ==
  IF S = {} THEN <<>>
  ELSE LET m == LexMin(S) IN SortedListDescending(S \ {m}) \o <<m>>

RECURSIVE SortedList(_)
\* sorted(list(dir_entries))
SortedList(S) ==
  IF S = {} THEN <<>>
  ELSE LET m == LexMin(S) IN <<m>> \o SortedList(S \ {m})

RECURSIVE Join(_, _)
\* sep.join(parts)
Join(parts, sep) ==
  IF parts = <<>> THEN <<>>
  ELSE IF Len(parts) = 1 THEN parts[1]
  ELSE parts[1] \o sep \o Join(Tail(parts), sep)

\* the index of the last "." of a name, 0 when there is none
LastDot(name) ==
  LET dots == {i \in 1..Len(name) : name[i] = 46}
  IN IF dots = {} THEN 0 ELSE CHOOSE i \in dots : \A j \in dots : j <= i

\* PurePath.stem: the name without its last suffix
Stem(name) ==
  LET i == LastDot(name)
  IN IF 1 < i /\ i < Len(name) THEN SubSeq(name, 1, i - 1) ELSE name

\* str.capitalize() on a lower-case ASCII word
Capitalize(s) ==
  IF s = <<>> THEN s
  ELSE <<IF 97 <= s[1] /\ s[1] <= 122 THEN s[1] - 32 ELSE s[1]>> \o Tail(s)

\* a theme directory that does not depend on --theme
ThemeDirFixed(t) == <<ThemeDirPrefix \o Light>>

\* Path(f"material3-plasma-{args.theme}")
ThemeDir(t) == <<ThemeDirPrefix \o t>>

\* Path("src/normalized")
NormalizedDir == <<SrcName, NormalizedName>>

\* normalized_dir / f"{material_id}.svg"
NormalizedSvg(material_id) == NormalizedDir \o <<material_id \o SvgSuffix>>

\* theme_dir / "scalable" / context
ScalableDir(t, context) == ThemeDir(t) \o <<ScalableName, context>>

\* scalable_dir / f"{kde_name}.svg"
ThemeSvg(t, context, kde_name) == ScalableDir(t, context) \o <<kde_name \o SvgSuffix>>

\* dest_dir / f"{size}x{size}"
SizeDir(dest_dir, size) == dest_dir \o <<SizeDirName(size)>>

\* size_dir / f"{source_svg.stem}.png"
DestPng(dest_dir, size, source_svg) ==
  SizeDir(dest_dir, size) \o <<Stem(source_svg[Len(source_svg)]) \o PngSuffix>>

\* theme_dir / "index.theme"
IndexPath(t) == ThemeDir(t) \o <<IndexName>>

\* the path and all its ancestors: mkdir(parents=True, exist_ok=True)
WithParents(p) == {SubSeq(p, 1, k) : k \in 1..Len(p)}

(* ---------------------------------------------------------------------- *)
(* File contents                                                           *)
(* ---------------------------------------------------------------------- *)
\* the upstream 24px.svg of the j-th directory found for a material id
Upstream(material_id, j) == [kind |-> "upstream", id |-> material_id, dir |-> j]

\* inkscape --export-plain-svg --export-area-drawing --vacuum-defs
Inkscape(c) == [kind |-> "plain", of |-> c]

\* fill_color = "#232629" if theme == "light" else "#eff0f1"
FillColor(t) == IF t = Light THEN "#232629" ELSE "#eff0f1"

\* every shape element gets fill=fill_color, then tree.write
SetFill(c, color) == [kind |-> "filled", of |-> c, fill |-> color]

\* rsvg-convert -w size -h size
Rsvg(c, size) == [kind |-> "png", of |-> c, w |-> size, h |-> size]

\* optipng -o7 -quiet, in place
Optipng(c) == [kind |-> "optimized", of |-> c]

\* the text of index.theme
IndexContent(t, entries) ==
  [kind |-> "index",
   name |-> ThemeNameHead \o Capitalize(t) \o ThemeNameTail,
   directories |-> Join(SortedList(entries), <<44>>)]

\* open(path, "a"): the content is appended to what the file holds
WriteFileAppend(f, path, content) ==
  [p \in DOMAIN f \cup {path} |->
     IF p # path THEN f[p]
     ELSE IF p \in DOMAIN f THEN [kind |-> "appended", head |-> f[p], tail |-> content]
     ELSE content]

\* open(path, "w").write(content) / Path.write_text / a tool writing its output
WriteFile(f, path, content) ==
  [p \in DOMAIN f \cup {path} |-> IF p = path THEN content ELSE f[p]]

(* ---------------------------------------------------------------------- *)
(* Inputs of a build: tools/mapping.csv and the material-design-icons tree *)
(* ---------------------------------------------------------------------- *)
\* kde_name values: "f", "g.h"
KdeF == <<102>>

KdeGH == <<103, 46, 104>>

\* material_id values: "m", "n"
MatM == <<109>>

MatN == <<110>>

MaterialIds == {MatM, MatN}

\* context values: "a", "p"
CtxA == <<97>>

CtxP == <<112>>

\* rows of mapping.csv: kde_name, material_id, context
CandidateRows ==
  {<<KdeF, MatM, CtxA>>, <<KdeF, MatN, CtxP>>, <<KdeGH, MatM, CtxA>>}

Mappings == UNION {[1..n -> CandidateRows] : n \in 0..MaxRows}

\* the directories rglob finds for one material id, in rglob's order:
\* TRUE when the directory holds materialicons/24px.svg
SrcStates == {<<>>, <<FALSE>>, <<FALSE, TRUE, TRUE>>}

EmptyFiles == [p \in {} |-> [kind |-> "none"]]

Stale(tag) == [kind |-> "stale", tag |-> tag]

\* the checkout the script runs in holds a tree left behind by earlier work:
\* both theme directories with an index.theme, one scalable icon and one PNG,
\* and one normalized SVG
StaleDirs ==
  UNION {WithParents(ScalableDir(t, CtxA)) \cup WithParents(SizeDir(ThemeDir(t), 16)) : t \in Themes}
    \cup WithParents(NormalizedDir)

StalePaths ==
  {IndexPath(t) : t \in Themes}
    \cup {ThemeSvg(t, CtxA, KdeF) : t \in Themes}
    \cup {DestPng(ThemeDir(t), 16, ThemeSvg(t, CtxA, KdeF)) : t \in Themes}
    \cup {NormalizedSvg(MatM)}

StaleFiles == [p \in StalePaths |-> Stale(p)]

VARIABLES
  mappingExists,  \* tools/mapping.csv exists
  mapping,        \* its rows
  materialExists, \* the --material-path directory exists
  srcTree,        \* material id -> the directories of that name
  files,          \* file path -> content
  dirs,           \* the directories that exist
  theme,          \* args.theme of the current run
  ci,             \* args.ci: the script is run with or without --ci
  pc,             \* where the run stands
  row,            \* index of the mapping row of the loop
  sizeIdx,        \* index of the size of rasterize_png's loop
  source_svg,     \* index of the directory whose 24px.svg was chosen, 0 for None
  dir_entries,    \* the directory-entry set
  log,            \* what the run did so far: prints, tool invocations, writes
  written,        \* the files the run wrote: <<path, row>>, row 0 for main()
  runNo,          \* number of runs started
  startFiles,     \* files when the run started
  startDirs,      \* dirs when the run started
  prev            \* the previous run, when it completed: its flags and result

inputs == <<mappingExists, mapping, materialExists, srcTree>>

vars == <<mappingExists, mapping, materialExists, srcTree, files, dirs, theme, ci, pc,
          row, sizeIdx, source_svg, dir_entries, log, written, runNo, startFiles,
          startDirs, prev>>

NoPrev ==
  [ok |-> FALSE, theme |-> <<>>, ci |-> FALSE, files |-> EmptyFiles, dirs |-> {},
   written |-> {}]

Init ==
  /\ mappingExists \in BOOLEAN
  /\ mapping \in Mappings
  /\ materialExists \in BOOLEAN
  /\ srcTree \in [MaterialIds -> SrcStates]
  /\ files = StaleFiles
  /\ dirs = StaleDirs
  /\ theme = Light
  /\ ci \in BOOLEAN
  /\ pc = "idle"
  /\ row = 1
  /\ sizeIdx = 1
  /\ source_svg = 0
  /\ dir_entries = {}
  /\ log = <<>>
  /\ written = {}
  /\ runNo = 0
  /\ startFiles = files
  /\ startDirs = dirs
  /\ prev = NoPrev

Event(op, r, size) == [op |-> op, row |-> r, size |-> size]

\* kde_name, material_id, context = row
KdeName(r) == mapping[r][1]

MaterialId(r) == mapping[r][2]

Context(r) == mapping[r][3]

\* list(material_src_dir.rglob(f"**/{material_id}"))
SourceIconDirs(material_id) == IF materialExists THEN srcTree[material_id] ELSE <<>>

\* the first icon_dir, whether or not it holds the SVG
FindFirstDir(material_id) == IF SourceIconDirs(material_id) = <<>> THEN 0 ELSE 1

\* the first icon_dir whose materialicons/24px.svg exists, 0 when source_svg stays None
FindSourceSvg(material_id) ==
  LET ds == SourceIconDirs(material_id)
      hits == {j \in 1..Len(ds) : ds[j]}
  IN IF hits = {} THEN 0 ELSE CHOOSE j \in hits : \A k \in hits : j <= k

\* source_path.exists() in normalize_svg
SourceExists(material_id, j) ==
  LET ds == SourceIconDirs(material_id) IN j \in 1..Len(ds) /\ ds[j]

(* ---------------------------------------------------------------------- *)
(* main(): one action per step between two external tool invocations       *)
(* ---------------------------------------------------------------------- *)
\* subprocess.run without check=True: the exit status is ignored
Unchecked(next) == next

\* subprocess.run(..., check=True) on a non-zero exit status raises
\* CalledProcessError, which nothing catches: the run ends there
CheckedRun(next) == "crashed"

\* the prologue without the check of the material source directory
PrologueNoMaterialCheck(t) ==
  IF ~mappingExists
    THEN [pc |-> "aborted", dirs |-> dirs, log |-> <<Event("error_mapping", 0, 0)>>]
  ELSE [pc |-> "loop",
        dirs |-> dirs \cup {ThemeDir(t)} \cup WithParents(NormalizedDir),
        log |-> <<Event("mkdir", 0, 0), Event("mkdir", 0, 0)>>]

\* the two early returns, then the two mkdir calls
Prologue(t) ==
  IF ~mappingExists
    THEN [pc |-> "aborted", dirs |-> dirs, log |-> <<Event("error_mapping", 0, 0)>>]
  ELSE IF ~materialExists
    THEN [pc |-> "aborted", dirs |-> dirs, log |-> <<Event("error_material", 0, 0)>>]
  ELSE [pc |-> "loop",
        dirs |-> dirs \cup {ThemeDir(t)} \cup WithParents(NormalizedDir),
        log |-> <<Event("mkdir", 0, 0), Event("mkdir", 0, 0)>>]

\* the loop left after its first row
LoopDoneEarly == row > 1 \/ row > Len(mapping)

\* the for loop over the rows of the reader is exhausted
LoopDone == row > Len(mapping)

\* a run of the script: get_args, the checks, the directories, dir_entries = set();
\* the script is run again after a run that returned
Start ==
  /\ pc \in {"idle", "done", "aborted"}
  /\ runNo < MaxRuns
  /\ \E t \in Themes :
       LET pr == Prologue(t) IN
       /\ theme' = t
       /\ pc' = pr.pc
       /\ dirs' = pr.dirs
       /\ log' = pr.log
  /\ runNo' = runNo + 1
  /\ row' = 1
  /\ sizeIdx' = 1
  /\ source_svg' = 0
  /\ dir_entries' = {}
  /\ written' = {}
  /\ startFiles' = files
  /\ startDirs' = dirs
  /\ prev' = IF pc = "done"
               THEN [ok |-> TRUE, theme |-> theme, ci |-> ci, files |-> files,
                     dirs |-> dirs, written |-> written]
               ELSE NoPrev
  /\ UNCHANGED <<inputs, files, ci>>

\* if not source_icon_dirs: warning, continue
RowNoDir ==
  /\ pc = "loop"
  /\ ~LoopDone
  /\ SourceIconDirs(MaterialId(row)) = <<>>
  /\ log' = Append(log, Event("warn_dir", row, 0))
  /\ row' = row + 1
  /\ UNCHANGED <<inputs, files, dirs, theme, ci, pc, sizeIdx, source_svg, dir_entries,
                 written, runNo, startFiles, startDirs, prev>>

\* if not source_svg: warning, continue
RowNoSvg ==
  /\ pc = "loop"
  /\ ~LoopDone
  /\ SourceIconDirs(MaterialId(row)) # <<>>
  /\ FindSourceSvg(MaterialId(row)) = 0
  /\ log' = Append(log, Event("warn_svg", row, 0))
  /\ row' = row + 1
  /\ UNCHANGED <<inputs, files, dirs, theme, ci, pc, sizeIdx, source_svg, dir_entries,
                 written, runNo, startFiles, startDirs, prev>>

\* the source SVG was found: on to normalize_svg
RowFound ==
  /\ pc = "loop"
  /\ ~LoopDone
  /\ SourceIconDirs(MaterialId(row)) # <<>>
  /\ FindSourceSvg(MaterialId(row)) # 0
  /\ source_svg' = FindSourceSvg(MaterialId(row))
  /\ pc' = "normalize"
  /\ UNCHANGED <<inputs, files, dirs, theme, ci, row, sizeIdx, dir_entries, log,
                 written, runNo, startFiles, startDirs, prev>>

\* normalize_svg: inkscape succeeds, the fill colour is set, the tree is written
InkscapeOk ==
  /\ dirs' = dirs \cup WithParents(NormalizedDir)
  /\ files' = WriteFile(files, NormalizedSvg(MaterialId(row)),
                 SetFill(Inkscape(Upstream(MaterialId(row), source_svg)), FillColor(theme)))
  /\ written' = written \cup {<<NormalizedSvg(MaterialId(row)), row>>}
  /\ log' = log \o <<Event("mkdir", row, 0), Event("inkscape", row, 0),
                     Event("fill", row, 0)>>
  /\ pc' = "place"
  /\ UNCHANGED <<inputs, theme, ci, row, sizeIdx, source_svg, dir_entries, runNo,
                 startFiles, startDirs, prev>>

\* normalize_svg: inkscape exits with a failure
InkscapeFail ==
  /\ dirs' = dirs \cup WithParents(NormalizedDir)
  /\ log' = log \o <<Event("mkdir", row, 0), Event("inkscape", row, 0),
                     Event("failed", row, 0)>>
  /\ pc' = CheckedRun("place")
  /\ UNCHANGED <<inputs, files, theme, ci, row, sizeIdx, source_svg, dir_entries,
                 written, runNo, startFiles, startDirs, prev>>

\* normalize_svg: the source does not exist, a warning and return
NormalizeMissing ==
  /\ log' = Append(log, Event("warn_source", row, 0))
  /\ pc' = "place"
  /\ UNCHANGED <<inputs, files, dirs, theme, ci, row, sizeIdx, source_svg, dir_entries,
                 written, runNo, startFiles, startDirs, prev>>

Normalize ==
  /\ pc = "normalize"
  /\ IF ~SourceExists(MaterialId(row), source_svg)
       THEN NormalizeMissing
       ELSE InkscapeOk \/ InkscapeFail

\* step 2 of the loop body: the scalable directory, the copy, the first entry
Place ==
  /\ pc = "place"
  /\ dirs' = dirs \cup WithParents(ScalableDir(theme, Context(row)))
  /\ IF NormalizedSvg(MaterialId(row)) \in DOMAIN files
       THEN /\ files' = WriteFile(files, ThemeSvg(theme, Context(row), KdeName(row)),
                           files[NormalizedSvg(MaterialId(row))])
            /\ written' = written \cup {<<ThemeSvg(theme, Context(row), KdeName(row)), row>>}
            /\ dir_entries' = dir_entries \cup {ScalableEntry(Context(row))}
            /\ log' = log \o <<Event("mkdir", row, 0), Event("place", row, 0)>>
            /\ pc' = "rsvg"
            /\ sizeIdx' = 1
            /\ row' = row
       ELSE /\ log' = Append(log, Event("mkdir", row, 0))
            /\ pc' = "loop"
            /\ row' = row + 1
            /\ UNCHANGED <<files, written, dir_entries, sizeIdx>>
  /\ UNCHANGED <<inputs, theme, ci, source_svg, runNo, startFiles, startDirs, prev>>

\* the PNG rasterize_png writes for the current row and size
CurrentPng ==
  DestPng(ThemeDir(theme), Sizes[sizeIdx], ThemeSvg(theme, Context(row), KdeName(row)))

\* rasterize_png: the size directory, then rsvg-convert succeeds
RsvgOk ==
  /\ pc = "rsvg"
  /\ dirs' = dirs \cup WithParents(SizeDir(ThemeDir(theme), Sizes[sizeIdx]))
  /\ files' = WriteFile(files, CurrentPng,
                 Rsvg(files[ThemeSvg(theme, Context(row), KdeName(row))], Sizes[sizeIdx]))
  /\ written' = written \cup {<<CurrentPng, row>>}
  /\ log' = log \o <<Event("mkdir", row, Sizes[sizeIdx]), Event("rsvg", row, Sizes[sizeIdx])>>
  /\ pc' = "optipng"
  /\ UNCHANGED <<inputs, theme, ci, row, sizeIdx, source_svg, dir_entries, runNo,
                 startFiles, startDirs, prev>>

\* rasterize_png: the size directory, then rsvg-convert fails
RsvgFail ==
  /\ pc = "rsvg"
  /\ dirs' = dirs \cup WithParents(SizeDir(ThemeDir(theme), Sizes[sizeIdx]))
  /\ log' = log \o <<Event("mkdir", row, Sizes[sizeIdx]), Event("rsvg", row, Sizes[sizeIdx]),
                     Event("failed", row, Sizes[sizeIdx])>>
  /\ pc' = CheckedRun("optipng")
  /\ UNCHANGED <<inputs, files, theme, ci, row, sizeIdx, source_svg, dir_entries,
                 written, runNo, startFiles, startDirs, prev>>

\* for size in [...]: dir_entries.add(f"{size}x{size}/{context}")
WithSizeEntries(entries, context) ==
  entries \cup {SizeEntry(EntrySizes[k], context) : k \in 1..Len(EntrySizes)}

\* rasterize_png: optipng succeeds; after the last size rasterize_png returns and
\* main() adds the nine size entries
OptipngOk ==
  /\ pc = "optipng"
  /\ files' = WriteFile(files, CurrentPng, Optipng(files[CurrentPng]))
  /\ log' = Append(log, Event("optipng", row, Sizes[sizeIdx]))
  /\ IF sizeIdx < Len(Sizes)
       THEN /\ sizeIdx' = sizeIdx + 1
            /\ pc' = "rsvg"
            /\ UNCHANGED <<row, dir_entries>>
       ELSE /\ dir_entries' = WithSizeEntries(dir_entries, Context(row))
            /\ row' = row + 1
            /\ pc' = "loop"
            /\ sizeIdx' = 1
  /\ UNCHANGED <<inputs, dirs, theme, ci, source_svg, written, runNo, startFiles,
                 startDirs, prev>>

\* rasterize_png: optipng fails
OptipngFail ==
  /\ pc = "optipng"
  /\ log' = log \o <<Event("optipng", row, Sizes[sizeIdx]), Event("failed", row, Sizes[sizeIdx])>>
  /\ pc' = CheckedRun(IF sizeIdx < Len(Sizes) THEN "rsvg" ELSE "loop")
  /\ UNCHANGED <<inputs, files, dirs, theme, ci, row, sizeIdx, source_svg, dir_entries,
                 written, runNo, startFiles, startDirs, prev>>

\* step 4: generate_index_theme, after the loop
GenerateIndex ==
  /\ pc = "loop"
  /\ LoopDone
  /\ files' = WriteFile(files, IndexPath(theme), IndexContent(theme, dir_entries))
  /\ written' = written \cup {<<IndexPath(theme), 0>>}
  /\ log' = Append(log, Event("index", 0, 0))
  /\ pc' = "done"
  /\ UNCHANGED <<inputs, dirs, theme, ci, row, sizeIdx, source_svg, dir_entries, runNo,
                 startFiles, startDirs, prev>>

Next ==
  \/ Start
  \/ RowNoDir
  \/ RowNoSvg
  \/ RowFound
  \/ Normalize
  \/ Place
  \/ RsvgOk
  \/ RsvgFail
  \/ OptipngOk
  \/ OptipngFail
  \/ GenerateIndex

Spec == Init /\ [][Next]_vars

(* ---------------------------------------------------------------------- *)
(* Vocabulary of the properties                                            *)
(* ---------------------------------------------------------------------- *)
Rows == 1..Len(mapping)

NineSizes == {16, 22, 24, 32, 48, 64, 96, 128, 256}

\* the row's source icon exists: some directory named material_id under the
\* material path holds materialicons/24px.svg
HasSource(r) ==
  materialExists /\ \E j \in 1..Len(srcTree[MaterialId(r)]) : srcTree[MaterialId(r)][j]

WrittenPaths == {w[1] : w \in written}

Under(p, d) == Len(p) >= Len(d) /\ SubSeq(p, 1, Len(d)) = d

Parent(p) == SubSeq(p, 1, Len(p) - 1)

RECURSIVE SplitOn(_, _)
\* the pieces of a string between the occurrences of a separator character
SplitOn(str, sep) ==
  LET hits == {i \in 1..Len(str) : str[i] = sep}
  IN IF hits = {} THEN <<str>>
     ELSE LET i == CHOOSE k \in hits : \A l \in hits : k <= l
          IN <<SubSeq(str, 1, i - 1)>> \o SplitOn(SubSeq(str, i + 1, Len(str)), sep)

\* the entries of the Directories= field of the index.theme of the run
Listed ==
  LET field == files[IndexPath(theme)].directories
  IN IF field = <<>> THEN <<>> ELSE SplitOn(field, 44)

ListedSet == {Listed[i] : i \in 1..Len(Listed)}

\* the ten entries of a context
TenEntries(c) == {ScalableEntry(c)} \cup {SizeEntry(sz, c) : sz \in NineSizes}

WarnOps == {"warn_dir", "warn_svg"}

LastEvent == log[Len(log)]

(* ---------------------------------------------------------------------- *)
(* C1                                                                      *)
(* ---------------------------------------------------------------------- *)
\* C1: after a run in which every tool succeeded, for every mapping row whose
\* source SVG exists the theme tree holds scalable/<context>/<kde_name>.svg and,
\* for each of the nine sizes, <s>x<s>/<context>/<kde_name>.png.
C1_TenFilesUnderContext ==
  pc = "done" =>
    \A r \in Rows : HasSource(r) =>
      /\ ThemeDir(theme) \o <<ScalableName, Context(r), KdeName(r) \o SvgSuffix>>
           \in DOMAIN files
      /\ \A sz \in NineSizes :
           ThemeDir(theme) \o <<SizeDirName(sz), Context(r), KdeName(r) \o PngSuffix>>
             \in DOMAIN files

(* ---------------------------------------------------------------------- *)
(* C2                                                                      *)
(* ---------------------------------------------------------------------- *)
\* C2: after a run that generated index.theme, Directories= lists exactly the
\* theme subdirectories the run populated: every listed directory exists and holds
\* a file the run wrote, and every directory the run wrote an icon into is listed.
C2_DirectoriesArePopulated ==
  pc = "done" =>
    /\ \A e \in ListedSet :
         LET d == ThemeDir(theme) \o SplitOn(e, 47)
         IN d \in dirs /\ \E p \in WrittenPaths : Parent(p) = d
    /\ \A p \in WrittenPaths :
         Under(p, ThemeDir(theme)) /\ p # IndexPath(theme) =>
           Join(SubSeq(p, 2, Len(p) - 1), <<47>>) \in ListedSet

(* ---------------------------------------------------------------------- *)
(* C3                                                                      *)
(* ---------------------------------------------------------------------- *)
\* C3: a mapping row whose source icon is absent never crashes the run: the run
\* prints one warning for it, invokes no tool and writes no file and makes no
\* directory for it, goes on with the next row, and generates the descriptor.
C3_AbsentRowSkipped ==
  \A r \in Rows : ~HasSource(r) =>
    /\ \A i \in 1..Len(log) : log[i].row = r => log[i].op \in WarnOps
    /\ \A w \in written : w[2] # r
    /\ pc \in {"normalize", "place", "rsvg", "optipng", "crashed"} => row # r
    /\ row > r => Cardinality({i \in 1..Len(log) : log[i].row = r}) = 1
    /\ pc = "done" => LastEvent.op = "index" /\ row > r

\* C3 witness: a run completed, with an absent row skipped before a row that was
\* rasterized
C3_Witness ==
  /\ pc = "done"
  /\ \E r \in Rows : ~HasSource(r) /\ r < Len(mapping) /\ HasSource(r + 1)
                     /\ \E i \in 1..Len(log) : log[i] = Event("optipng", r + 1, 256)

(* ---------------------------------------------------------------------- *)
(* C4                                                                      *)
(* ---------------------------------------------------------------------- *)
\* C4: a failing tool invocation ends the run: the failure is the last thing the
\* run does, so no later tool runs, no later row is processed, and index.theme is
\* not written by that run.
C4_ToolFailureIsFatal ==
  /\ \A i \in 1..Len(log) : log[i].op = "failed" =>
       /\ i = Len(log)
       /\ pc = "crashed"
       /\ IndexPath(theme) \notin WrittenPaths
       /\ \A j \in 1..Len(log) : log[j].op # "index"
       /\ \A j \in 1..Len(log) : log[j].row <= log[i].row
  /\ pc = "crashed" => log # <<>> /\ LastEvent.op = "failed"

\* C4 witness: a tool failed on a row that is not the last one
C4_Witness ==
  /\ pc = "crashed"
  /\ row < Len(mapping)
  /\ HasSource(row + 1)

(* ---------------------------------------------------------------------- *)
(* C5                                                                      *)
(* ---------------------------------------------------------------------- *)
\* C5: when mapping.csv or the material path is missing, main() prints a message
\* and returns: it does not raise, creates or changes no file and no directory,
\* and invokes no tool.
C5_EarlyReturn ==
  /\ (~mappingExists \/ ~materialExists) =>
       /\ pc \in {"idle", "aborted"}
       /\ files = startFiles
       /\ dirs = startDirs
       /\ written = {}
       /\ \A i \in 1..Len(log) : log[i].op \in {"error_mapping", "error_material"}
       /\ pc = "aborted" => Len(log) = 1
  /\ pc = "aborted" => ~mappingExists \/ ~materialExists

\* C5 witness: a run returned early in a checkout that holds files
C5_Witness ==
  /\ pc = "aborted"
  /\ mappingExists
  /\ ~materialExists
  /\ files = StaleFiles

(* ---------------------------------------------------------------------- *)
(* C6                                                                      *)
(* ---------------------------------------------------------------------- *)
\* C6: a successful run that follows a successful run with the same flags (the
\* mapping, the source tree and --ci never change) leaves the filesystem as the
\* first run left it.
C6_Idempotent ==
  (pc = "done" /\ prev.ok /\ prev.theme = theme /\ prev.ci = ci) =>
    files = prev.files /\ dirs = prev.dirs

\* C6 witness: the second of two successful runs of the same theme that processed
\* an icon
C6_Witness ==
  /\ pc = "done"
  /\ prev.ok
  /\ prev.theme = theme
  /\ \E r \in Rows : HasSource(r)

(* ---------------------------------------------------------------------- *)
(* C7                                                                      *)
(* ---------------------------------------------------------------------- *)
\* what must have happened for the row of an event before the event
Before(e, i) ==
  LET seen(op, sz) == \E j \in 1..(i - 1) : log[j] = Event(op, e.row, sz)
      unseen(ops) == \A j \in 1..(i - 1) : log[j].row = e.row => log[j].op \notin ops
  IN CASE e.op = "inkscape" -> unseen({"inkscape", "fill", "place", "rsvg", "optipng"})
       [] e.op = "fill" -> seen("inkscape", 0) /\ unseen({"fill", "place", "rsvg", "optipng"})
       [] e.op = "place" -> seen("fill", 0) /\ unseen({"place", "rsvg", "optipng"})
       [] e.op = "rsvg" -> seen("place", 0) /\ ~seen("rsvg", e.size) /\ ~seen("optipng", e.size)
       [] e.op = "optipng" -> seen("rsvg", e.size) /\ ~seen("optipng", e.size)
       [] e.op = "index" ->
            /\ \A j \in 1..(i - 1) : log[j].op # "index"
            /\ \A r \in Rows :
                 \/ \E j \in 1..(i - 1) : log[j].row = r /\ log[j].op \in WarnOps
                 \/ \A sz \in NineSizes : \E j \in 1..(i - 1) : log[j] = Event("optipng", r, sz)
       [] OTHER -> TRUE

\* C7: index.theme is written at most once in a run and only after every row was
\* completely processed or skipped; per row, inkscape comes before the fill rewrite,
\* that before the placement, that before rasterization, and for each size
\* rsvg-convert comes before optipng.  (Stated of the latest step of the run; it
\* holds in every state, hence of every step.)
C7_Order ==
  /\ log # <<>> => Before(LastEvent, Len(log))
  /\ \A i \in 1..(Len(log) - 1) : log[i].op # "index"
  /\ IndexPath(theme) \in WrittenPaths => log # <<>> /\ LastEvent.op = "index"

\* C7 witness: the descriptor was written after a skipped row and a processed row
C7_Witness ==
  /\ pc = "done"
  /\ Len(mapping) >= 2
  /\ \E r \in Rows : ~HasSource(r)
  /\ \E r \in Rows : HasSource(r)

(* ---------------------------------------------------------------------- *)
(* C8                                                                      *)
(* ---------------------------------------------------------------------- *)
\* C8: the directory-entry set only ever holds scalable/<c> and <s>x<s>/<c>
\* entries of the nine sizes; the descriptor lists exactly the ten entries of each
\* context that has a processed row and none of a context whose rows were all
\* skipped, each entry once, in ascending string order, separated by commas.
C8_DirEntries ==
  /\ dir_entries \subseteq UNION {TenEntries(Context(r)) : r \in Rows}
  /\ pc = "done" =>
       /\ ListedSet = UNION {TenEntries(Context(r)) : r \in {q \in Rows : HasSource(q)}}
       /\ ListedSet = dir_entries
       /\ \A i \in 1..(Len(Listed) - 1) : LexLess(Listed[i], Listed[i + 1])

\* C8 witness: a descriptor with the entries of one context, while the rows of
\* another context were all skipped
C8_Witness ==
  /\ pc = "done"
  /\ Len(Listed) = 10
  /\ \E r \in Rows : ~HasSource(r) /\ \A q \in Rows : HasSource(q) => Context(q) # Context(r)

(* ---------------------------------------------------------------------- *)
(* C9                                                                      *)
(* ---------------------------------------------------------------------- *)
\* C9: when the rows have pairwise distinct (context, kde_name) pairs, no file of
\* the theme tree is written for two different rows.
C9_NoSharedTargets ==
  (\A r1, r2 \in Rows :
      r1 # r2 => <<Context(r1), KdeName(r1)>> # <<Context(r2), KdeName(r2)>>) =>
    \A w1, w2 \in written :
      (w1[1] = w2[1] /\ Under(w1[1], ThemeDir(theme))) => w1[2] = w2[2]

(* ---------------------------------------------------------------------- *)
(* C10                                                                     *)
(* ---------------------------------------------------------------------- *)
InScope(p) == Under(p, <<ThemeDirPrefix \o theme>>) \/ Under(p, <<SrcName, NormalizedName>>)

\* the files a completed run writes, as the mapping, the source tree and the theme
\* determine them
ExpectedWritten ==
  {IndexPath(theme)} \cup
  UNION {{NormalizedSvg(MaterialId(r)), ThemeSvg(theme, Context(r), KdeName(r))} \cup
         {DestPng(ThemeDir(theme), sz, ThemeSvg(theme, Context(r), KdeName(r))) :
            sz \in NineSizes} : r \in {q \in Rows : HasSource(q)}}

\* C10: a run with --theme t writes files only under material3-plasma-<t> and
\* src/normalized and leaves every other file, the other variant's tree and
\* index.theme included, as it was when the run started; which files a completed
\* run writes does not depend on --ci.
C10_ThemeFrame ==
  /\ \A p \in WrittenPaths : InScope(p)
  /\ \A p \in (DOMAIN files \cup DOMAIN startFiles) :
       ~InScope(p) => p \in DOMAIN files /\ p \in DOMAIN startFiles /\ files[p] = startFiles[p]
  /\ startDirs \subseteq dirs
  /\ \A d \in dirs \ startDirs : InScope(d) \/ d = <<SrcName>>
  /\ pc = "done" => WrittenPaths = ExpectedWritten

\* C10 witness: a run with --ci completed after a run of the other variant that
\* had populated its tree
C10_Witness ==
  /\ pc = "done"
  /\ ci
  /\ prev.ok
  /\ prev.theme # theme
  /\ \E p \in DOMAIN files : Under(p, <<ThemeDirPrefix \o prev.theme, ScalableName>>)
  /\ \E r \in Rows : HasSource(r)

====
